---- MODULE Spec2Model ----
(***************************************************************************)
(* Model of race-for-the-price:                                            *)
(*  - the profile comparison engine (cli/profile-analysis.js): the metric  *)
(*    registry PROFILE_METRICS, buildProfileComparison, groupByCategory;   *)
(*  - the settle-detection poller waitForStability (visual-stability.cjs); *)
(*  - the clip alignment of the video player (resolveClip, seekAll and     *)
(*    the frame calibration offsets);                                      *)
(*  - the command line and the run of review-pr.js;                        *)
(*  - waitForStability next to its older copy, and two invocations of it   *)
(*    running concurrently.                                                *)
(* Each component has its own specifications; the variables of the other   *)
(* components stay at their initial values.                                *)
(*                                                                         *)
(* JavaScript values are records [t, n, d]: t is the type tag, and a       *)
(* number is the exact rational n/d in lowest terms with d > 0 (the        *)
(* rounding of IEEE doubles is not modelled).  Sequences are 1-based, so   *)
(* the code's vals[0] is At(vals, 1).                                      *)
(***************************************************************************)
EXTENDS Integers, Sequences, FiniteSets, TLC

\* buildProfileComparison: its arguments, its return value, called / returned
VARIABLES racerNames, profileData, result, pc

\* waitForStability: its options, the clock Date.now(), the invocation's
\* locals and position, and what the supplier has done so far
VARIABLES options, now, poller, supplier

\* the video player: the clip ranges embedded in the page, the calibration
\* offsets in frames, the player's position (active clip, seek positions), and
\* the calibration asked for so far (the frames each stream was asked to move
\* by since the last reset, the last operation and the offsets before it)
VARIABLES clipTimes, debugOffsets, player, calibrated

\* review-pr.js: the command line, and the run (position, parsed options, what
\* has completed, the review POSTs issued)
VARIABLES argv, review

\* waitForStability and its older copy given the same samples at the same
\* times: the options, the clock, the two invocations, and whether a sample
\* met the stability window and the timeout together
VARIABLES pair

\* two concurrent invocations of waitForStability, each with its own
\* supplier: the options, the clock, and per invocation its locals, its
\* supplier and the calls in flight
VARIABLES duo

profileVars == <<racerNames, profileData, result, pc>>

pollerVars == <<options, now, poller, supplier>>

playerVars == <<clipTimes, debugOffsets, player, calibrated>>

reviewVars == <<argv, review>>

variantVars == <<pair, duo>>

vars == <<profileVars, pollerVars, playerVars, reviewVars, variantVars>>

\* the variables a component leaves alone
notProfileVars == <<pollerVars, playerVars, reviewVars, variantVars>>

notPollerVars == <<profileVars, playerVars, reviewVars, variantVars>>

notPlayerVars == <<profileVars, pollerVars, reviewVars, variantVars>>

notReviewVars == <<profileVars, pollerVars, playerVars, variantVars>>

notPairVars == <<profileVars, pollerVars, playerVars, reviewVars, duo>>

notDuoVars == <<profileVars, pollerVars, playerVars, reviewVars, pair>>

----------------------------------------------------------------------------
(* Bounds of the checked inputs *)

\* Spec: metric values range over 0..MaxVal
MaxVal == 1
\* Spec: largest number of distinct keys the snapshots of one call carry together
MaxKeys == 2
\* SpecV, SpecN: metric values range over -MaxAbs..MaxAbs
MaxAbs == 1
\* SpecV, SpecN: largest number of distinct keys of one call
MaxKeysV == 1
\* SpecN: largest number of racers, and of snapshots
MaxRacers == 3
\* SpecPoll: pollInterval ranges over 1..MaxPoll (clock ticks)
MaxPoll == 2
\* SpecPoll: stabilityWindow ranges over 0..MaxWindow
MaxWindow == 2
\* SpecPoll: timeout ranges over 0..MaxTimeout
MaxTimeout == 4
\* SpecPoll: a supplier call takes 0..MaxLatency ticks
MaxLatency == 2
\* SpecDuo: a supplier's counters change for up to MaxSettle calls
MaxSettle == 2
\* SpecPoll: the three counters of a sample add up to at most MaxCounter
MaxCounter == 1
\* SpecClip: largest number of streams
MaxStreams == 2
\* SpecClip: finite clip bounds range over 0..MaxClipTime seconds
MaxClipTime == 2
\* SpecClip: the elapsed time sought ranges over 0..MaxElapsed seconds
MaxElapsed == 3
\* SpecCal: offsets stay within -MaxOffset..MaxOffset frames
MaxOffset == 6
\* SpecReview: at most MaxArgs tokens follow the two positional arguments
MaxArgs == 3
\* SpecReview: at most MaxDeltas events are read from the model stream
MaxDeltas == 2
\* SpecReview: at most MaxComments inline comments are parsed
MaxComments == 1

----------------------------------------------------------------------------
(* JavaScript values *)

Null == [t |-> "null", n |-> 0, d |-> 1]
Undefined == [t |-> "undefined", n |-> 0, d |-> 1]
NaN == [t |-> "NaN", n |-> 0, d |-> 1]
Infinity == [t |-> "Infinity", n |-> 1, d |-> 1]
NegInfinity == [t |-> "Infinity", n |-> 0 - 1, d |-> 1]

Abs(i) == IF i < 0 THEN 0 - i ELSE i

RECURSIVE GCD(_, _)
GCD(a, b) == IF b = 0 THEN a ELSE GCD(b, a % b)

\* the number n/d (d # 0) in lowest terms
Ratio(n, d) ==
  LET g == GCD(Abs(n), Abs(d))
      s == IF d < 0 THEN 0 - 1 ELSE 1
  IN [t |-> "number", n |-> (s * n) \div g, d |-> (s * d) \div g]

Number(i) == [t |-> "number", n |-> i, d |-> 1]

\* the name that stands for a null winner / overallWinner
NullName == "null"

\* ToNumber: null is 0, undefined is NaN
ToNumber(x) ==
  CASE x.t = "null" -> Number(0)
    [] x.t = "undefined" -> NaN
    [] OTHER -> x

\* x === y
StrictEquals(x, y) == x.t # "NaN" /\ x = y

\* x <= y on the operands' numeric values; false when either is NaN
LessOrEqual(x, y) ==
  LET a == ToNumber(x)
      b == ToNumber(y)
  IN /\ a.t = "number"
     /\ b.t = "number"
     /\ a.n * b.d <= b.n * a.d

\* x > 0
GreaterThanZero(x) ==
  LET a == ToNumber(x)
  IN \/ a.t = "number" /\ a.n > 0
     \/ a = Infinity

\* x - y
Minus(x, y) ==
  LET a == ToNumber(x)
      b == ToNumber(y)
  IN IF a.t = "number" /\ b.t = "number"
     THEN Ratio(a.n * b.d - b.n * a.d, a.d * b.d)
     ELSE NaN

\* x / y
Divide(x, y) ==
  LET a == ToNumber(x)
      b == ToNumber(y)
  IN IF a.t # "number" \/ b.t # "number" THEN NaN
     ELSE IF b.n # 0 THEN Ratio(a.n * b.d, a.d * b.n)
     ELSE IF a.n = 0 THEN NaN
     ELSE IF a.n > 0 THEN Infinity ELSE NegInfinity

\* x * y
Times(x, y) ==
  LET a == ToNumber(x)
      b == ToNumber(y)
  IN IF a.t = "number" /\ b.t = "number"
     THEN Ratio(a.n * b.n, a.d * b.d)
     ELSE IF a.t = "NaN" \/ b.t = "NaN" THEN NaN
     ELSE IF (a.n > 0) = (b.n > 0) THEN Infinity ELSE NegInfinity

\* arr[i - 1]: reading past the end of an array gives undefined
At(arr, i) == IF i \in 1..Len(arr) THEN arr[i] ELSE Undefined

----------------------------------------------------------------------------
(* The metric registry *)

PROFILE_METRICS == <<
  [key |-> "networkTransferSize", category |-> "network"],
  [key |-> "networkRequestCount", category |-> "network"],
  [key |-> "domContentLoaded", category |-> "loading"],
  [key |-> "domComplete", category |-> "loading"],
  [key |-> "jsHeapUsedSize", category |-> "memory"],
  [key |-> "scriptDuration", category |-> "computation"],
  [key |-> "layoutDuration", category |-> "rendering"],
  [key |-> "recalcStyleDuration", category |-> "rendering"],
  [key |-> "taskDuration", category |-> "computation"] >>

MetricKeys == {PROFILE_METRICS[i].key : i \in 1..Len(PROFILE_METRICS)}

Categories == {PROFILE_METRICS[i].category : i \in 1..Len(PROFILE_METRICS)}

----------------------------------------------------------------------------
(* buildProfileComparison *)

\* A snapshot is Null or a function from the keys it carries to numbers.
\* p?.[key] ?? null
MetricValue(p, key) ==
  IF p = Null THEN Null
  ELSE IF key \in DOMAIN p THEN p[key] ELSE Null

\* profileData.map(p => p?.[key] ?? null)
Vals(data, key) == [i \in 1..Len(data) |-> MetricValue(data[i], key)]

\* if (vals[0] === null && vals[1] === null) continue
SkipMetric(vals) ==
  StrictEquals(At(vals, 1), Null) /\ StrictEquals(At(vals, 2), Null)

\* HasWinner without the test that the two values differ
HasWinner_NoTieCheck(vals) ==
  /\ ~StrictEquals(At(vals, 1), Null)
  /\ ~StrictEquals(At(vals, 2), Null)

\* vals[0] !== null && vals[1] !== null && vals[0] !== vals[1]
HasWinner(vals) ==
  /\ ~StrictEquals(At(vals, 1), Null)
  /\ ~StrictEquals(At(vals, 2), Null)
  /\ ~StrictEquals(At(vals, 1), At(vals, 2))

\* WinIdx with the comparison turned around
WinIdx_Reversed(vals) == IF LessOrEqual(At(vals, 2), At(vals, 1)) THEN 1 ELSE 2

\* winIdx = vals[0] <= vals[1] ? 0 : 1   (1-based here)
WinIdx(vals) == IF LessOrEqual(At(vals, 1), At(vals, 2)) THEN 1 ELSE 2

\* loseIdx = 1 - winIdx
LoseIdx(winIdx) == 3 - winIdx

\* DiffPercent guarding only against a winning value of exactly 0
DiffPercent_NonZeroGuard(diff, winVal) ==
  IF ~StrictEquals(ToNumber(winVal), Number(0))
  THEN Times(Divide(diff, winVal), Number(100))
  ELSE Number(0)

\* vals[winIdx] > 0 ? (comp.diff / vals[winIdx] * 100) : 0
DiffPercent(diff, winVal) ==
  IF GreaterThanZero(winVal)
  THEN Times(Divide(diff, winVal), Number(100))
  ELSE Number(0)

\* IncrementWins that loses the increment
IncrementWins_Lost(wins, name) == wins

\* wins[name]++
IncrementWins(wins, name) == [wins EXCEPT ![name] = @ + 1]

\* the comparison of one metric, winner fields filled in
Comparison(names, metric, vals) ==
  LET base == [key |-> metric.key, category |-> metric.category, values |-> vals,
               winner |-> NullName, diff |-> Null, diffPercent |-> Null]
      winIdx == WinIdx(vals)
      diff == Minus(At(vals, LoseIdx(winIdx)), At(vals, winIdx))
  IN IF HasWinner(vals)
     THEN [base EXCEPT !.winner = names[winIdx],
                       !.diff = diff,
                       !.diffPercent = DiffPercent(diff, At(vals, winIdx))]
     ELSE base

\* Push that adds at the front
Push_Front(comparisons, comp) == <<comp>> \o comparisons

\* comparisons.push(comp)
Push(comparisons, comp) == Append(comparisons, comp)

\* the for loop over Object.entries(PROFILE_METRICS), from entry i on
RECURSIVE MetricLoop(_, _, _, _)
MetricLoop(names, data, i, acc) ==
  IF i > Len(PROFILE_METRICS) THEN acc
  ELSE
    LET metric == PROFILE_METRICS[i]
        vals == Vals(data, metric.key)
        comp == Comparison(names, metric, vals)
    IN IF SkipMetric(vals) THEN MetricLoop(names, data, i + 1, acc)
       ELSE MetricLoop(names, data, i + 1,
              [comparisons |-> Push(acc.comparisons, comp),
               wins |-> IF comp.winner # NullName
                        THEN IncrementWins(acc.wins, comp.winner)
                        ELSE acc.wins])

\* OverallWinner that reports a tie even without any comparison
OverallWinner_TieWhenEmpty(names, wins, comparisons) ==
  IF wins[names[1]] > wins[names[2]] THEN names[1]
  ELSE IF wins[names[2]] > wins[names[1]] THEN names[2]
  ELSE "tie"

\* the overall profile winner
OverallWinner(names, wins, comparisons) ==
  IF wins[names[1]] > wins[names[2]] THEN names[1]
  ELSE IF wins[names[2]] > wins[names[1]] THEN names[2]
  ELSE IF Len(comparisons) > 0 THEN "tie"
  ELSE NullName

\* AddToGroup that starts the group anew on every comparison
AddToGroup_Replace(groups, comp) ==
  [c \in DOMAIN groups \cup {comp.category} |->
     IF c = comp.category THEN <<comp>> ELSE groups[c]]

\* groups[comp.category].push(comp), the group created on first use
AddToGroup(groups, comp) ==
  IF comp.category \in DOMAIN groups
  THEN [groups EXCEPT ![comp.category] = Append(@, comp)]
  ELSE [c \in DOMAIN groups \cup {comp.category} |->
          IF c = comp.category THEN <<comp>> ELSE groups[c]]

RECURSIVE GroupLoop(_, _, _)
GroupLoop(comparisons, i, groups) ==
  IF i > Len(comparisons) THEN groups
  ELSE GroupLoop(comparisons, i + 1, AddToGroup(groups, comparisons[i]))

groupByCategory(comparisons) == GroupLoop(comparisons, 1, <<>>)

buildProfileComparison(names, data) ==
  LET wins0 == [nm \in {names[1], names[2]} |-> 0]
      loop == MetricLoop(names, data, 1, [comparisons |-> <<>>, wins |-> wins0])
  IN [comparisons |-> loop.comparisons,
      wins |-> loop.wins,
      overallWinner |-> OverallWinner(names, loop.wins, loop.comparisons),
      byCategory |-> groupByCategory(loop.comparisons)]

----------------------------------------------------------------------------
(* Inputs *)

AllNames == <<"a", "b", "c", "d", "e">>

Values(lo, hi) == {Number(v) : v \in lo..hi}

\* keys a snapshot may carry: the registry's and one the registry does not know
InputKeys == MetricKeys \cup {"customMetric"}

\* for m snapshots, the per-key value vectors in which some racer has a value
ValueVectors(m, values) ==
  {v \in [1..m -> values \cup {Null}] : \E i \in 1..m : v[i] # Null}

\* snapshot i of the call whose keys and value vectors are f
SnapshotOf(f, i, isNull) ==
  LET keys == {k \in DOMAIN f : f[k][i] # Null}
  IN IF keys = {} /\ isNull THEN Null ELSE [k \in keys |-> f[k][i]]

\* the sets of at most maxKeys keys the snapshots of one call carry together
KeySets(maxKeys) == {T \in SUBSET InputKeys : Cardinality(T) <= maxKeys}

\* the racers without any value, whose snapshot may be null instead of empty
Valueless(f, m) == {i \in 1..m : \A k \in DOMAIN f : f[k][i] = Null}

NoResult == [comparisons |-> <<>>, wins |-> <<>>, overallWinner |-> NullName,
             byCategory |-> <<>>]

\* the scopes of a scoped snapshot { total: {...}, measured: {...} }
Scopes == {"measured", "total"}

\* the metrics the scoped snapshots carry
ScopedKeys == {"networkTransferSize", "scriptDuration"}

\* the value of a property that holds an object
ObjectValue == [t |-> "object", n |-> 0, d |-> 1]

\* the path scope.key, which stands for p[scope][key]
Path(scope, key) == scope \o "." \o key

\* the snapshot { total: {...}, measured: {...} } whose scopes carry the values
\* of v that are not null: its own properties are the two scopes, and the
\* values inside a scope are kept under their paths
ScopedSnapshot(v) ==
  LET inner == {sk \in Scopes \X ScopedKeys : v[sk] # Null}
  IN [x \in Scopes \cup {Path(sk[1], sk[2]) : sk \in inner} |->
        IF x \in Scopes THEN ObjectValue
        ELSE v[CHOOSE sk \in inner : Path(sk[1], sk[2]) = x]]

----------------------------------------------------------------------------
(* waitForStability (visual-stability.cjs) *)

\* what getCounters resolves to
Counters ==
  {c \in [taskDuration : 0..MaxCounter, layoutCount : 0..MaxCounter,
          recalcStyleCount : 0..MaxCounter] :
     c.taskDuration + c.layoutCount + c.recalcStyleCount <= MaxCounter}

\* prev / curr before the first sample
NoCounters == [taskDuration |-> 0 - 1, layoutCount |-> 0 - 1,
               recalcStyleCount |-> 0 - 1]

\* no StabilityResult (yet)
NoStability == [stable |-> FALSE, elapsed |-> 0 - 1]

\* the invocation before it is made
IdlePoller ==
  [pc |-> "idle", start |-> 0, prev |-> NoCounters, curr |-> NoCounters,
   stableSince |-> 0, result |-> NoStability]

\* the names of the three counters
CounterNames == {"taskDuration", "layoutCount", "recalcStyleCount"}

\* what the supplier has done: the last sample it gave, since when its samples
\* have been equal to their predecessors, whether two consecutive samples were
\* ever equal, whether the last sample differed from the one before in a
\* single counter, how long its last call took, whether all its calls took
\* no time, and whether a call failed
IdleSupplier ==
  [last |-> NoCounters, sameSince |-> 0, everSame |-> FALSE, single |-> FALSE,
   latency |-> 0, instant |-> TRUE, failed |-> FALSE]

\* Changed when all three counters differ
Changed_AllThree(curr, prev) ==
  /\ curr.taskDuration # prev.taskDuration
  /\ curr.layoutCount # prev.layoutCount
  /\ curr.recalcStyleCount # prev.recalcStyleCount

\* Changed comparing taskDuration only
Changed_TaskOnly(curr, prev) == curr.taskDuration # prev.taskDuration

\* curr.taskDuration !== prev.taskDuration || curr.layoutCount !== ... || ...
Changed(curr, prev) ==
  \/ curr.taskDuration # prev.taskDuration
  \/ curr.layoutCount # prev.layoutCount
  \/ curr.recalcStyleCount # prev.recalcStyleCount

\* LoopTop that also returns stable when the window has passed
LoopTop_StableAtTop(w, t, o) ==
  LET elapsed == t - w.start
  IN IF elapsed >= o.timeout
     THEN [w EXCEPT !.pc = "returned",
                    !.result = [stable |-> FALSE, elapsed |-> elapsed]]
     ELSE IF t - w.stableSince >= o.stabilityWindow
     THEN [w EXCEPT !.pc = "returned",
                    !.result = [stable |-> TRUE, elapsed |-> elapsed]]
     ELSE [w EXCEPT !.pc = "sleeping"]

\* the top of the loop at time t: return on timeout, else sleep pollInterval
LoopTop(w, t, o) ==
  LET elapsed == t - w.start
  IN IF elapsed >= o.timeout
     THEN [w EXCEPT !.pc = "returned",
                    !.result = [stable |-> FALSE, elapsed |-> elapsed]]
     ELSE [w EXCEPT !.pc = "sleeping"]

\* OnSample with a window that has to be exceeded
OnSample_Strict(w, c, sampleTime, o) ==
  LET sampleElapsed == sampleTime - w.start
  IN IF Changed(c, w.prev)
     THEN LoopTop([w EXCEPT !.curr = c, !.stableSince = sampleTime, !.prev = c],
                  sampleTime, o)
     ELSE IF sampleTime - w.stableSince > o.stabilityWindow
     THEN [w EXCEPT !.curr = c, !.pc = "returned",
                    !.result = [stable |-> TRUE, elapsed |-> sampleElapsed]]
     ELSE LoopTop([w EXCEPT !.curr = c], sampleTime, o)

\* OnSample in the order timeout, then stability
OnSample_TimeoutFirst(w, c, sampleTime, o) ==
  LET sampleElapsed == sampleTime - w.start
  IN IF Changed(c, w.prev)
     THEN LoopTop([w EXCEPT !.curr = c, !.stableSince = sampleTime, !.prev = c],
                  sampleTime, o)
     ELSE IF sampleElapsed >= o.timeout
     THEN [w EXCEPT !.curr = c, !.pc = "returned",
                    !.result = [stable |-> FALSE, elapsed |-> sampleElapsed]]
     ELSE IF sampleTime - w.stableSince >= o.stabilityWindow
     THEN [w EXCEPT !.curr = c, !.pc = "returned",
                    !.result = [stable |-> TRUE, elapsed |-> sampleElapsed]]
     ELSE [w EXCEPT !.curr = c, !.pc = "sleeping"]

\* OnSample without the continue after a changed sample
OnSample_NoContinue(w, c, sampleTime, o) ==
  LET sampleElapsed == sampleTime - w.start
      w1 == IF Changed(c, w.prev)
            THEN [w EXCEPT !.curr = c, !.stableSince = sampleTime, !.prev = c]
            ELSE [w EXCEPT !.curr = c]
  IN IF sampleTime - w1.stableSince >= o.stabilityWindow
     THEN [w1 EXCEPT !.pc = "returned",
                     !.result = [stable |-> TRUE, elapsed |-> sampleElapsed]]
     ELSE LoopTop(w1, sampleTime, o)

\* the loop body after the await of getCounters: curr = c at sampleTime, then
\* on to the top of the loop, reached at the same clock reading
OnSample(w, c, sampleTime, o) ==
  LET sampleElapsed == sampleTime - w.start
  IN IF Changed(c, w.prev)
     THEN LoopTop([w EXCEPT !.curr = c, !.stableSince = sampleTime, !.prev = c],
                  sampleTime, o)
     ELSE IF sampleTime - w.stableSince >= o.stabilityWindow
     THEN [w EXCEPT !.curr = c, !.pc = "returned",
                    !.result = [stable |-> TRUE, elapsed |-> sampleElapsed]]
     ELSE LoopTop([w EXCEPT !.curr = c], sampleTime, o)

\* SleepTime sleeping twice as long
SleepTime_Double(o) == 2 * o.pollInterval

\* setTimeout(r, pollInterval)
SleepTime(o) == o.pollInterval

\* OnFailure that asks the supplier again
OnFailure_Retry(w) == w

\* a rejected getCounters is not caught: the invocation ends without a result
OnFailure(w) == [w EXCEPT !.pc = "failed"]

\* the supplier gives sample c at time t, after a call of lat ticks
Supplied(h, c, t, lat) ==
  [h EXCEPT !.last = c,
            !.sameSince = IF c = h.last THEN h.sameSince ELSE t,
            !.everSame = h.everSame \/ c = h.last,
            !.single = /\ h.last # NoCounters
                       /\ Cardinality({f \in CounterNames : c[f] # h.last[f]}) = 1,
            !.latency = lat,
            !.instant = h.instant /\ lat = 0]

\* const start = Date.now(); getCounters() is called
Invoke ==
  /\ poller.pc = "idle"
  /\ poller' = [poller EXCEPT !.pc = "first", !.start = now]
  /\ UNCHANGED <<options, now, supplier>>
  /\ UNCHANGED notPollerVars

\* let prev = await getCounters(); let stableSince = Date.now(); loop top
FirstSample ==
  /\ poller.pc = "first"
  /\ \E c \in Counters, lat \in 0..MaxLatency :
       /\ now' = now + lat
       /\ poller' = LoopTop([poller EXCEPT !.prev = c, !.stableSince = now'],
                            now', options)
       /\ supplier' = Supplied(supplier, c, now', lat)
  /\ UNCHANGED options
  /\ UNCHANGED notPollerVars

\* the timer of the sleep fires; getCounters() is called
TimerFires ==
  /\ poller.pc = "sleeping"
  /\ now' = now + SleepTime(options)
  /\ poller' = [poller EXCEPT !.pc = "sampling"]
  /\ UNCHANGED <<options, supplier>>
  /\ UNCHANGED notPollerVars

\* const curr = await getCounters(); the rest of the loop body
SampleArrives ==
  /\ poller.pc = "sampling"
  /\ \E c \in Counters, lat \in 0..MaxLatency :
       /\ now' = now + lat
       /\ poller' = OnSample(poller, c, now', options)
       /\ supplier' = Supplied(supplier, c, now', lat)
  /\ UNCHANGED options
  /\ UNCHANGED notPollerVars

\* getCounters() rejects
SupplierFails ==
  /\ poller.pc \in {"first", "sampling"}
  /\ ~supplier.failed
  /\ supplier' = [supplier EXCEPT !.failed = TRUE]
  /\ poller' = OnFailure(poller)
  /\ UNCHANGED <<options, now>>
  /\ UNCHANGED notPollerVars

PollerIdle ==
  /\ options = [stabilityWindow |-> 0, timeout |-> 0, pollInterval |-> 1]
  /\ now = 0
  /\ poller = IdlePoller
  /\ supplier = IdleSupplier

----------------------------------------------------------------------------
(* Clip alignment of the video player *)

\* x + y
Plus(x, y) ==
  LET a == ToNumber(x)
      b == ToNumber(y)
  IN IF a.t = "number" /\ b.t = "number"
     THEN Ratio(a.n * b.d + b.n * a.d, a.d * b.d)
     ELSE IF a.t = "NaN" \/ b.t = "NaN" THEN NaN
     ELSE IF a.t = "number" THEN b
     ELSE IF b.t = "number" \/ a = b THEN a
     ELSE NaN

\* x <= y on numbers and infinities
ExtLeq(a, b) ==
  /\ a.t # "NaN"
  /\ b.t # "NaN"
  /\ \/ a = NegInfinity
     \/ b = Infinity
     \/ a.t = "number" /\ b.t = "number" /\ a.n * b.d <= b.n * a.d

\* Math.min(x, y)
MathMin(x, y) ==
  LET a == ToNumber(x)
      b == ToNumber(y)
  IN IF a.t = "NaN" \/ b.t = "NaN" THEN NaN ELSE IF ExtLeq(a, b) THEN a ELSE b

\* Math.max(x, y)
MathMax(x, y) ==
  LET a == ToNumber(x)
      b == ToNumber(y)
  IN IF a.t = "NaN" \/ b.t = "NaN" THEN NaN ELSE IF ExtLeq(a, b) THEN b ELSE a

\* Number.isFinite(x)
IsFinite(x) == x.t = "number"

\* a null entry of clipTimes
NullClip == [t |-> "null", start |-> Undefined, end |-> Undefined]

\* { start, end }
Clip(start, end) == [t |-> "object", start |-> start, end |-> end]

\* no aligned clip
UndefinedClip == [t |-> "undefined", start |-> Undefined, end |-> Undefined]

\* no position for a stream
Excluded == Undefined

\* ct && Number.isFinite(ct.start) && Number.isFinite(ct.end)
HasFiniteRange(ct) == ct.t = "object" /\ IsFinite(ct.start) /\ IsFinite(ct.end)

\* a valid range: finite start, finite end, end >= start
IsValidClip(ct) == HasFiniteRange(ct) /\ ExtLeq(ct.start, ct.end)

\* NextMinStart taking the larger start
NextMinStart_Max(minStart, ct) == MathMax(minStart, ct.start)

\* minStart = Math.min(minStart, ct.start)
NextMinStart(minStart, ct) == MathMin(minStart, ct.start)

\* maxDuration = Math.max(maxDuration, ct.end - ct.start)
NextMaxDuration(maxDuration, ct) == MathMax(maxDuration, Minus(ct.end, ct.start))

\* the loop over clipTimes from entry i, and the returned range
RECURSIVE ResolveLoop(_, _, _, _)
ResolveLoop(clips, i, minStart, maxDuration) ==
  IF i > Len(clips) THEN Clip(minStart, Plus(minStart, maxDuration))
  ELSE IF IsValidClip(clips[i])
  THEN ResolveLoop(clips, i + 1, NextMinStart(minStart, clips[i]),
                   NextMaxDuration(maxDuration, clips[i]))
  ELSE ResolveLoop(clips, i + 1, minStart, maxDuration)

\* resolveClip returning the loop's range whatever the entries
resolveClip_NoGuard(clips) == ResolveLoop(clips, 1, Infinity, Number(0))

\* computeAlignedClip: the shared window of the clips, undefined when no
\* entry is valid
resolveClip(clips) ==
  IF \A i \in 1..Len(clips) : ~IsValidClip(clips[i]) THEN UndefinedClip
  ELSE ResolveLoop(clips, 1, Infinity, Number(0))

\* Position without the clamp at the clip's end
Position_NoUpperClamp(ct, elapsed) == MathMax(ct.start, Plus(ct.start, elapsed))

\* target = ct.start + elapsed, clamped into [ct.start, ct.end]
Position(ct, elapsed) ==
  MathMax(ct.start, MathMin(ct.end, Plus(ct.start, elapsed)))

\* mapElapsed: the position of every stream at an elapsed time; none for a
\* stream without a valid range
seekAll(clips, elapsed) ==
  [i \in 1..Len(clips) |->
     IF IsValidClip(clips[i]) THEN Position(clips[i], elapsed) ELSE Excluded]

\* streamElapsed reporting the absolute position
streamElapsed_Absolute(position, ct) == position

\* vidElapsed = pos - clipTimes[i].start
streamElapsed(position, ct) == Minus(position, ct.start)

\* old seekAll: the shared time t = minStart + elapsed clamped into the
\* stream's own range
oldPosition(ct, minStart, elapsed) ==
  MathMax(ct.start, MathMin(ct.end, Plus(minStart, elapsed)))

\* 1 frame = 0.040s (25fps)
FRAME_STEP == Ratio(1, 25)

\* the deltas of the frame buttons
FrameDeltas == {0 - 5, 0 - 1, 1, 5}

\* adjustDebugOffset adding the delta to every stream
adjustDebugOffset_All(offsets, streamIndex, deltaFrames) ==
  [i \in DOMAIN offsets |-> offsets[i] + deltaFrames]

\* adjustOffset: the offset of one stream moves by deltaFrames
adjustDebugOffset(offsets, streamIndex, deltaFrames) ==
  [offsets EXCEPT ![streamIndex] = @ + deltaFrames]

\* resetOffsets leaving the last stream's offset
resetOffsets_ButLast(offsets) ==
  [i \in DOMAIN offsets |-> IF i = Len(offsets) THEN offsets[i] ELSE 0]

\* every offset back to zero
resetOffsets(offsets) == [i \in DOMAIN offsets |-> 0]

\* ShiftClip moving the start only
ShiftClip_StartOnly(ct, offset) ==
  IF ct.t # "object" THEN ct
  ELSE Clip(Plus(ct.start, Times(Number(offset), FRAME_STEP)), ct.end)

\* one clip shifted by offset frames, its end never before its start
ShiftClip(ct, offset) ==
  IF ct.t # "object" THEN ct
  ELSE LET shift == Times(Number(offset), FRAME_STEP)
           start == Plus(ct.start, shift)
           end == Plus(ct.end, shift)
       IN Clip(start, IF ExtLeq(end, start) /\ end # start THEN start ELSE end)

\* applyOffsets: the clips with each stream's offset applied
getAdjustedClipTimes(clips, offsets) ==
  [i \in 1..Len(clips) |-> ShiftClip(clips[i], offsets[i])]

\* the player before anything is resolved or sought
IdlePlayer ==
  [pc |-> "loaded", activeClip |-> UndefinedClip, elapsed |-> Number(0),
   positions |-> <<>>]

\* no calibration asked for
NoCalibration(n) ==
  [frames |-> [i \in 1..n |-> 0], op |-> "none", before |-> [i \in 1..n |-> 0]]

\* activeClip = resolveClip()
Resolve ==
  /\ player.pc = "loaded"
  /\ player' = [player EXCEPT
       !.pc = "resolved",
       !.activeClip = resolveClip(clipTimes)]
  /\ UNCHANGED <<clipTimes, debugOffsets, calibrated>>
  /\ UNCHANGED notPlayerVars

\* seekAll at an elapsed time of the active clip
Seek ==
  /\ player.pc \in {"resolved", "sought"}
  /\ \E e \in 0..MaxElapsed :
       player' = [player EXCEPT
         !.pc = "sought",
         !.elapsed = Number(e),
         !.positions = seekAll(clipTimes, Number(e))]
  /\ UNCHANGED <<clipTimes, debugOffsets, calibrated>>
  /\ UNCHANGED notPlayerVars

\* the active clip resolved from the adjusted clips
resolveAdjustedClip(offsets) ==
  [IdlePlayer EXCEPT
     !.pc = "resolved",
     !.activeClip = resolveClip(getAdjustedClipTimes(clipTimes, offsets))]

\* a frame button of a stream is pressed
AdjustOffset ==
  /\ \E i \in 1..Len(clipTimes), delta \in FrameDeltas :
       /\ debugOffsets[i] + delta \in (0 - MaxOffset)..MaxOffset
       /\ debugOffsets' = adjustDebugOffset(debugOffsets, i, delta)
       /\ calibrated' = [frames |-> [calibrated.frames EXCEPT ![i] = @ + delta],
                         op |-> "adjust", before |-> debugOffsets]
  /\ player' = resolveAdjustedClip(debugOffsets')
  /\ UNCHANGED clipTimes
  /\ UNCHANGED notPlayerVars

\* Reset All is pressed
ResetOffsets ==
  /\ debugOffsets' = resetOffsets(debugOffsets)
  /\ calibrated' = [frames |-> [i \in 1..Len(clipTimes) |-> 0], op |-> "reset",
                    before |-> debugOffsets]
  /\ player' = resolveAdjustedClip(debugOffsets')
  /\ UNCHANGED clipTimes
  /\ UNCHANGED notPlayerVars

PlayerIdle ==
  /\ clipTimes = <<>>
  /\ debugOffsets = <<>>
  /\ player = IdlePlayer
  /\ calibrated = NoCalibration(0)

----------------------------------------------------------------------------
(* review-pr.js *)

\* what an option that takes no value from the command line holds
DefaultModel == "claude-sonnet-4-6"

\* args[i] past the end of args
UndefinedArg == "undefined"

\* the tokens that follow the two positional arguments
OptionTokens ==
  {"--model", "--approve", "--request-changes", "--event", "--dry-run",
   "--system", "--help", "--verbose", "APPROVE"}

\* args[++i]
ArgAt(args, i) == IF i \in 1..Len(args) THEN args[i] ELSE UndefinedArg

\* const opts = { repo, pr, model, event, dryRun, systemPrompt }
DefaultOpts(args) ==
  [repo |-> ArgAt(args, 1), pr |-> ArgAt(args, 2), model |-> DefaultModel,
   event |-> "COMMENT", dryRun |-> FALSE, systemPrompt |-> NullName]

\* the options loop from args[i - 1] on: the options, or the exit at an
\* unknown option
RECURSIVE OptionLoop(_, _, _)
OptionLoop(args, i, opts) ==
  IF i > Len(args) THEN [exit |-> FALSE, opts |-> opts]
  ELSE CASE args[i] = "--model" ->
              OptionLoop(args, i + 2, [opts EXCEPT !.model = ArgAt(args, i + 1)])
         [] args[i] = "--approve" ->
              OptionLoop(args, i + 1, [opts EXCEPT !.event = "APPROVE"])
         [] args[i] = "--request-changes" ->
              OptionLoop(args, i + 1, [opts EXCEPT !.event = "REQUEST_CHANGES"])
         [] args[i] = "--event" ->
              OptionLoop(args, i + 2, [opts EXCEPT !.event = ArgAt(args, i + 1)])
         [] args[i] = "--dry-run" ->
              OptionLoop(args, i + 1, [opts EXCEPT !.dryRun = TRUE])
         [] args[i] = "--system" ->
              OptionLoop(args, i + 2,
                         [opts EXCEPT !.systemPrompt = ArgAt(args, i + 1)])
         [] OTHER -> [exit |-> TRUE, opts |-> opts]

\* isNaN(parseInt(s, 10)) for the tokens of the model
IsNaNInt(s) == s # "1"

\* s.includes("/") for the tokens of the model
IncludesSlash(s) == s = "o/r"

\* parseArgs: the options, or exit |-> TRUE where it calls process.exit
parseArgs(args) ==
  IF (\E i \in 1..Len(args) : args[i] = "--help") \/ Len(args) < 2
  THEN [exit |-> TRUE, opts |-> DefaultOpts(args)]
  ELSE LET parsed == OptionLoop(args, 3, DefaultOpts(args))
       IN IF parsed.exit THEN parsed
          ELSE IF IsNaNInt(parsed.opts.pr) \/ ~IncludesSlash(parsed.opts.repo)
          THEN [exit |-> TRUE, opts |-> parsed.opts]
          ELSE parsed

\* ShouldPost whatever the options
ShouldPost_Always(opts) == TRUE

\* main goes on to postReview unless opts.dryRun
ShouldPost(opts) == ~opts.dryRun

\* the run before main is called
IdleReview ==
  [pc |-> "start", opts |-> DefaultOpts(<<>>), fetched |-> FALSE,
   parsed |-> FALSE, deltas |-> 0, comments |-> 0, posts |-> 0]

\* const opts = parseArgs(process.argv); fetchPRData is called
ParseArgs ==
  /\ review.pc = "start"
  /\ LET p == parseArgs(argv)
     IN review' = [review EXCEPT !.pc = IF p.exit THEN "exited" ELSE "fetching",
                                 !.opts = p.opts]
  /\ UNCHANGED argv
  /\ UNCHANGED notReviewVars

\* the three GETs of fetchPRData resolve; the model stream is opened
FetchDone ==
  /\ review.pc = "fetching"
  /\ review' = [review EXCEPT !.pc = "streaming", !.fetched = TRUE]
  /\ UNCHANGED argv
  /\ UNCHANGED notReviewVars

\* GITHUB_TOKEN is missing, or a GET fails: process.exit(1)
FetchFails ==
  /\ review.pc = "fetching"
  /\ review' = [review EXCEPT !.pc = "exited"]
  /\ UNCHANGED argv
  /\ UNCHANGED notReviewVars

\* for await (const event of stream): one more event
StreamDelta ==
  /\ review.pc = "streaming"
  /\ review.deltas < MaxDeltas
  /\ review' = [review EXCEPT !.deltas = @ + 1]
  /\ UNCHANGED argv
  /\ UNCHANGED notReviewVars

\* the stream or finalMessage() fails: main().catch, process.exit(1)
StreamFails ==
  /\ review.pc = "streaming"
  /\ review' = [review EXCEPT !.pc = "exited"]
  /\ UNCHANGED argv
  /\ UNCHANGED notReviewVars

\* finalMessage() resolves; parseReviewResponse; the dry run prints and
\* returns, any other run calls postReview, which issues the POST
FinalMessage ==
  /\ review.pc = "streaming"
  /\ \E n \in 0..MaxComments :
       review' =
         IF ShouldPost(review.opts)
         THEN [review EXCEPT !.pc = "posting", !.parsed = TRUE, !.comments = n,
                             !.posts = @ + 1]
         ELSE [review EXCEPT !.pc = "done", !.parsed = TRUE, !.comments = n]
  /\ UNCHANGED argv
  /\ UNCHANGED notReviewVars

\* the POST resolves: Review posted, Done.
PostDone ==
  /\ review.pc = "posting"
  /\ review' = [review EXCEPT !.pc = "done"]
  /\ UNCHANGED argv
  /\ UNCHANGED notReviewVars

\* the POST fails: main().catch, process.exit(1)
PostFails ==
  /\ review.pc = "posting"
  /\ review' = [review EXCEPT !.pc = "exited"]
  /\ UNCHANGED argv
  /\ UNCHANGED notReviewVars

ReviewIdle ==
  /\ argv = <<>>
  /\ review = IdleReview

----------------------------------------------------------------------------
(* waitForStability next to its older copy *)

\* the options waitForStability is checked with
OptionValues ==
  [stabilityWindow : 0..MaxWindow, timeout : 0..MaxTimeout,
   pollInterval : 1..MaxPoll]

\* OlderLoopTop in the order stability, then timeout
OlderLoopTop_StabilityFirst(w, t, o) ==
  LET elapsed == t - w.start
  IN IF t - w.stableSince >= o.stabilityWindow
     THEN [w EXCEPT !.pc = "returned",
                    !.result = [stable |-> TRUE, elapsed |-> elapsed]]
     ELSE IF elapsed >= o.timeout
     THEN [w EXCEPT !.pc = "returned",
                    !.result = [stable |-> FALSE, elapsed |-> elapsed]]
     ELSE [w EXCEPT !.pc = "sleeping"]

\* the top of the older copy's loop at time t: return on timeout, else return
\* stable when the window has passed, else sleep pollInterval
OlderLoopTop(w, t, o) ==
  LET elapsed == t - w.start
  IN IF elapsed >= o.timeout
     THEN [w EXCEPT !.pc = "returned",
                    !.result = [stable |-> FALSE, elapsed |-> elapsed]]
     ELSE IF t - w.stableSince >= o.stabilityWindow
     THEN [w EXCEPT !.pc = "returned",
                    !.result = [stable |-> TRUE, elapsed |-> elapsed]]
     ELSE [w EXCEPT !.pc = "sleeping"]

\* the end of the older copy's loop body: curr = c at sampleTime, a changed
\* sample resets stableSince and prev, then on to the top of the loop
OlderOnSample(w, c, sampleTime, o) ==
  IF Changed(c, w.prev)
  THEN OlderLoopTop([w EXCEPT !.curr = c, !.stableSince = sampleTime, !.prev = c],
                    sampleTime, o)
  ELSE OlderLoopTop([w EXCEPT !.curr = c], sampleTime, o)

\* the sample c taken at time t passes the stability test of the loop and the
\* timeout test together
MeetsBoth(w, c, t, o) ==
  /\ ~Changed(c, w.prev)
  /\ t - w.stableSince >= o.stabilityWindow
  /\ t - w.start >= o.timeout

IdlePair ==
  [opts |-> [stabilityWindow |-> 0, timeout |-> 0, pollInterval |-> 1],
   now |-> 0, newer |-> IdlePoller, older |-> IdlePoller, both |-> FALSE]

\* both copies are called at the same time
PairInvoke ==
  /\ pair.newer.pc = "idle"
  /\ pair.older.pc = "idle"
  /\ pair' = [pair EXCEPT !.newer = [@ EXCEPT !.pc = "first", !.start = pair.now],
                          !.older = [@ EXCEPT !.pc = "first", !.start = pair.now]]
  /\ UNCHANGED notPairVars

\* the initial sample reaches both copies
PairFirstSample ==
  /\ pair.newer.pc = "first"
  /\ pair.older.pc = "first"
  /\ \E c \in Counters, lat \in 0..MaxLatency :
       LET t == pair.now + lat
           n == LoopTop([pair.newer EXCEPT !.prev = c, !.stableSince = t],
                        t, pair.opts)
           o == OlderLoopTop([pair.older EXCEPT !.prev = c, !.stableSince = t],
                             t, pair.opts)
       IN pair' = [pair EXCEPT !.now = t, !.newer = n, !.older = o]
  /\ UNCHANGED notPairVars

\* the timers of the copies that sleep fire
PairTimerFires ==
  /\ "sleeping" \in {pair.newer.pc, pair.older.pc}
  /\ pair' = [pair EXCEPT
                !.now = @ + SleepTime(pair.opts),
                !.newer = IF @.pc = "sleeping" THEN [@ EXCEPT !.pc = "sampling"] ELSE @,
                !.older = IF @.pc = "sleeping" THEN [@ EXCEPT !.pc = "sampling"] ELSE @]
  /\ UNCHANGED notPairVars

\* the next sample reaches the copies that wait for it
PairSampleArrives ==
  /\ "sampling" \in {pair.newer.pc, pair.older.pc}
  /\ \E c \in Counters, lat \in 0..MaxLatency :
       LET t == pair.now + lat
           n == IF pair.newer.pc = "sampling"
                THEN OnSample(pair.newer, c, t, pair.opts) ELSE pair.newer
           o == IF pair.older.pc = "sampling"
                THEN OlderOnSample(pair.older, c, t, pair.opts) ELSE pair.older
       IN pair' = [pair EXCEPT
                     !.now = t, !.newer = n, !.older = o,
                     !.both = \/ @
                              \/ /\ pair.newer.pc = "sampling"
                                 /\ MeetsBoth(pair.newer, c, t, pair.opts)]
  /\ UNCHANGED notPairVars

PairIdle == pair = IdlePair

----------------------------------------------------------------------------
(* Two concurrent invocations of waitForStability *)

\* a supplier whose counters change with each of its first settleAfter calls
\* and stay the same from then on: what its call number callCount gives
CountersAt(settleAfter, callCount) ==
  LET n == IF callCount <= settleAfter THEN callCount ELSE settleAfter
  IN [taskDuration |-> n, layoutCount |-> n, recalcStyleCount |-> n]

\* an invocation before it is made: its locals, its supplier, the number of
\* calls made to the supplier, the calls in flight, and when its sleep ends
IdleInvocation ==
  [w |-> IdlePoller, settleAfter |-> 1, callCount |-> 0, inFlight |-> 0,
   wake |-> 0]

IdleDuo ==
  [opts |-> [stabilityWindow |-> 0, timeout |-> 0, pollInterval |-> 1],
   now |-> 0, inv |-> <<IdleInvocation, IdleInvocation>>]

\* Locals with prev and stableSince kept in variables of the module
Locals_Shared(d, i, w) ==
  [j \in 1..2 |->
     IF j = i THEN [d.inv[j] EXCEPT !.w = w]
     ELSE [d.inv[j] EXCEPT !.w = [@ EXCEPT !.prev = w.prev,
                                           !.stableSince = w.stableSince]]]

\* invocation i stores its locals w: start, prev, stableSince and its position
\* belong to the invocation
Locals(d, i, w) == [d.inv EXCEPT ![i] = [@ EXCEPT !.w = w]]

\* invocation i calls its supplier
CallIssued(inv, i) ==
  [inv EXCEPT ![i] = [@ EXCEPT !.callCount = @ + 1, !.inFlight = @ + 1]]

\* the call of invocation i settles
CallSettled(inv, i) == [inv EXCEPT ![i] = [@ EXCEPT !.inFlight = @ - 1]]

\* invocation i sleeps until now + pollInterval
TimerSet(inv, i, t, o) ==
  [inv EXCEPT ![i] = [@ EXCEPT !.wake = IF inv[i].w.pc = "sleeping"
                                       THEN t + SleepTime(o) ELSE @]]

\* no timer and no pending call is due before the timer of invocation i
TimerDue(d, i) ==
  \A j \in 1..2 :
    /\ d.inv[j].w.pc = "sleeping" => d.inv[i].wake <= d.inv[j].wake
    /\ d.inv[j].w.pc \in {"first", "sampling"} => d.inv[i].wake <= d.now

\* const start = Date.now(); getCounters() is called
DuoInvoke ==
  /\ \E i \in 1..2 :
       /\ duo.inv[i].w.pc = "idle"
       /\ duo' = [duo EXCEPT
                    !.inv = CallIssued(
                              Locals(duo, i, [duo.inv[i].w EXCEPT !.pc = "first",
                                                                 !.start = duo.now]),
                              i)]
  /\ UNCHANGED notDuoVars

\* let prev = await getCounters(); let stableSince = Date.now(); loop top
DuoFirstSample ==
  /\ \E i \in 1..2 :
       /\ duo.inv[i].w.pc = "first"
       /\ LET c == CountersAt(duo.inv[i].settleAfter, duo.inv[i].callCount)
               w == LoopTop([duo.inv[i].w EXCEPT !.prev = c,
                                                !.stableSince = duo.now],
                            duo.now, duo.opts)
          IN duo' = [duo EXCEPT
                       !.inv = TimerSet(CallSettled(Locals(duo, i, w), i), i,
                                        duo.now, duo.opts)]
  /\ UNCHANGED notDuoVars

\* the timer of the sleep fires; getCounters() is called
DuoTimerFires ==
  /\ \E i \in 1..2 :
       /\ duo.inv[i].w.pc = "sleeping"
       /\ TimerDue(duo, i)
       /\ duo' = [duo EXCEPT
                    !.now = duo.inv[i].wake,
                    !.inv = CallIssued(
                              Locals(duo, i, [duo.inv[i].w EXCEPT !.pc = "sampling"]),
                              i)]
  /\ UNCHANGED notDuoVars

\* const curr = await getCounters(); the rest of the loop body
DuoSampleArrives ==
  /\ \E i \in 1..2 :
       /\ duo.inv[i].w.pc = "sampling"
       /\ LET c == CountersAt(duo.inv[i].settleAfter, duo.inv[i].callCount)
               w == OnSample(duo.inv[i].w, c, duo.now, duo.opts)
          IN duo' = [duo EXCEPT
                       !.inv = TimerSet(CallSettled(Locals(duo, i, w), i), i,
                                        duo.now, duo.opts)]
  /\ UNCHANGED notDuoVars

DuoIdle == duo = IdleDuo

----------------------------------------------------------------------------
(* Specifications *)

\* profileData is a list of m snapshots that carry at most maxKeys keys together
IsProfileData(m, maxKeys, values) ==
  \E S \in KeySets(maxKeys) : \E f \in [S -> ValueVectors(m, values)] :
    \E nulls \in SUBSET Valueless(f, m) :
      profileData = [i \in 1..m |-> SnapshotOf(f, i, i \in nulls)]

\* two racers, one snapshot each, values from 0 up
Init ==
  /\ racerNames = SubSeq(AllNames, 1, 2)
  /\ IsProfileData(2, MaxKeys, Values(0, MaxVal))
  /\ result = NoResult
  /\ pc = "ready"
  /\ PollerIdle
  /\ PlayerIdle
  /\ ReviewIdle
  /\ PairIdle
  /\ DuoIdle

\* two racers, one snapshot each, values of either sign
InitV ==
  /\ racerNames = SubSeq(AllNames, 1, 2)
  /\ IsProfileData(2, MaxKeysV, Values(0 - MaxAbs, MaxAbs))
  /\ result = NoResult
  /\ pc = "ready"
  /\ PollerIdle
  /\ PlayerIdle
  /\ ReviewIdle
  /\ PairIdle
  /\ DuoIdle

\* two or more racers, and a snapshot list of any length up to MaxRacers
InitN ==
  /\ \E n \in 2..MaxRacers : racerNames = SubSeq(AllNames, 1, n)
  /\ \E m \in 0..MaxRacers : IsProfileData(m, MaxKeysV, Values(0 - MaxAbs, MaxAbs))
  /\ result = NoResult
  /\ pc = "ready"
  /\ PollerIdle
  /\ PlayerIdle
  /\ ReviewIdle
  /\ PairIdle
  /\ DuoIdle

Build ==
  /\ pc = "ready"
  /\ result' = buildProfileComparison(racerNames, profileData)
  /\ pc' = "done"
  /\ UNCHANGED <<racerNames, profileData>>
  /\ UNCHANGED notProfileVars

Next == Build

Spec == Init /\ [][Next]_vars

SpecV == InitV /\ [][Next]_vars

SpecN == InitN /\ [][Next]_vars

\* two racers, each with a scoped snapshot
InitS ==
  /\ racerNames = SubSeq(AllNames, 1, 2)
  /\ \E v1, v2 \in [Scopes \X ScopedKeys -> Values(0, MaxVal) \cup {Null}] :
       profileData = <<ScopedSnapshot(v1), ScopedSnapshot(v2)>>
  /\ result = NoResult
  /\ pc = "ready"
  /\ PollerIdle
  /\ PlayerIdle
  /\ ReviewIdle
  /\ PairIdle
  /\ DuoIdle

SpecS == InitS /\ [][Next]_vars

\* no call of buildProfileComparison
ProfileIdle ==
  /\ racerNames = SubSeq(AllNames, 1, 2)
  /\ profileData = <<Null, Null>>
  /\ result = NoResult
  /\ pc = "idle"

\* one invocation of waitForStability with any options within the bounds
InitPoll ==
  /\ ProfileIdle
  /\ options \in OptionValues
  /\ now = 0
  /\ poller = IdlePoller
  /\ supplier = IdleSupplier
  /\ PlayerIdle
  /\ ReviewIdle
  /\ PairIdle
  /\ DuoIdle

NextPoll ==
  \/ Invoke
  \/ FirstSample
  \/ TimerFires
  \/ SampleArrives
  \/ SupplierFails

SpecPoll == InitPoll /\ [][NextPoll]_vars

\* the event loop runs every timer and every settled promise
SpecPollFair == SpecPoll /\ WF_vars(NextPoll)

\* the values of a clip bound: seconds, NaN, Infinity
ClipValues == {Number(i) : i \in 0..MaxClipTime} \cup {NaN, Infinity}

\* the entries of clipTimes: null, or any start and end
ClipEntries == {NullClip} \cup {Clip(s, e) : s \in ClipValues, e \in ClipValues}

\* the clips of the debug mode page
DebugClips ==
  <<Clip(Ratio(152, 100), Number(3)), Clip(Ratio(12, 10), Ratio(28, 10))>>

\* a player page with any clipTimes of up to MaxStreams entries, offsets zero
InitClip ==
  /\ ProfileIdle
  /\ PollerIdle
  /\ ReviewIdle
  /\ PairIdle
  /\ DuoIdle
  /\ \E n \in 0..MaxStreams :
       /\ clipTimes \in [1..n -> ClipEntries]
       /\ debugOffsets = [i \in 1..n |-> 0]
       /\ calibrated = NoCalibration(n)
  /\ player = IdlePlayer

NextClip ==
  \/ Resolve
  \/ Seek

SpecClip == InitClip /\ [][NextClip]_vars

\* a player page in debug mode: each stream has its clip or none, offsets zero
InitCal ==
  /\ ProfileIdle
  /\ PollerIdle
  /\ ReviewIdle
  /\ PairIdle
  /\ DuoIdle
  /\ clipTimes \in [1..Len(DebugClips) ->
                      {NullClip} \cup {DebugClips[i] : i \in 1..Len(DebugClips)}]
  /\ debugOffsets = [i \in 1..Len(clipTimes) |-> 0]
  /\ calibrated = NoCalibration(Len(clipTimes))
  /\ player = IdlePlayer

NextCal ==
  \/ AdjustOffset
  \/ ResetOffsets

SpecCal == InitCal /\ [][NextCal]_vars

\* the command lines: fewer than two arguments, or a repository, a PR number
\* and up to MaxArgs further tokens
CommandLines ==
  {<<>>, <<"o/r">>} \cup
  UNION {{<<repo, prn>> \o rest : repo \in {"o/r", "repo"}, prn \in {"1", "one"},
                                  rest \in [1..n -> OptionTokens]} : n \in 0..MaxArgs}

\* one run of review-pr.js with any command line
InitReview ==
  /\ ProfileIdle
  /\ PollerIdle
  /\ PlayerIdle
  /\ argv \in CommandLines
  /\ review = IdleReview
  /\ PairIdle
  /\ DuoIdle

\* waitForStability and its older copy, called with any options within the
\* bounds
InitPair ==
  /\ ProfileIdle
  /\ PollerIdle
  /\ PlayerIdle
  /\ ReviewIdle
  /\ pair \in {[IdlePair EXCEPT !.opts = o] : o \in OptionValues}
  /\ DuoIdle

NextPair ==
  \/ PairInvoke
  \/ PairFirstSample
  \/ PairTimerFires
  \/ PairSampleArrives

SpecPair == InitPair /\ [][NextPair]_vars

\* two invocations with the same options, each with a supplier of its own
InitDuo ==
  /\ ProfileIdle
  /\ PollerIdle
  /\ PlayerIdle
  /\ ReviewIdle
  /\ PairIdle
  /\ \E o \in OptionValues, k1, k2 \in 1..MaxSettle :
       duo = [IdleDuo EXCEPT !.opts = o,
                             !.inv = <<[IdleInvocation EXCEPT !.settleAfter = k1],
                                       [IdleInvocation EXCEPT !.settleAfter = k2]>>]

NextDuo ==
  \/ DuoInvoke
  \/ DuoFirstSample
  \/ DuoTimerFires
  \/ DuoSampleArrives

SpecDuo == InitDuo /\ [][NextDuo]_vars

NextReview ==
  \/ ParseArgs
  \/ FetchDone
  \/ FetchFails
  \/ StreamDelta
  \/ StreamFails
  \/ FinalMessage
  \/ PostDone
  \/ PostFails

SpecReview == InitReview /\ [][NextReview]_vars

----------------------------------------------------------------------------
(* Properties of buildProfileComparison *)

Done == pc = "done"

Comparisons == result.comparisons

CompIdx == 1..Len(Comparisons)

\* racer i (1-based) has a value for key k in the input
Present(i, k) ==
  /\ i \in 1..Len(profileData)
  /\ profileData[i] # Null
  /\ k \in DOMAIN profileData[i]

\* the input lists are aligned by index
Aligned == Len(profileData) = Len(racerNames)

IsNum(x) == x.t = "number"

Less(x, y) == IsNum(x) /\ IsNum(y) /\ x.n * y.d < y.n * x.d

RegistryIndex(key) ==
  CHOOSE i \in 1..Len(PROFILE_METRICS) : PROFILE_METRICS[i].key = key

Reverse(seq) == [i \in 1..Len(seq) |-> seq[Len(seq) + 1 - i]]

RECURSIVE SumOver(_, _)
SumOver(f, S) ==
  IF S = {} THEN 0
  ELSE LET x == CHOOSE y \in S : TRUE IN f[x] + SumOver(f, S \ {x})

\* the comparisons that have a winner
Won == {i \in CompIdx : Comparisons[i].winner # NullName}

\* C1: for two competitors and every metric of the registry, a comparison with
\* a non-null winner is emitted if and only if both competitors have a value
\* for the metric and the two values are unequal.
C1_WinnerIffPresentUnequal ==
  Done =>
    \A m \in 1..Len(PROFILE_METRICS) :
      LET k == PROFILE_METRICS[m].key
      IN (\E i \in Won : Comparisons[i].key = k)
           <=> /\ Present(1, k)
               /\ Present(2, k)
               /\ profileData[1][k] # profileData[2][k]

\* equal present values were compared and gave no winner
C1_Witness ==
  /\ Done
  /\ \E i \in CompIdx :
       /\ IsNum(Comparisons[i].values[1])
       /\ Comparisons[i].values[1] = Comparisons[i].values[2]
       /\ Comparisons[i].winner = NullName

\* C2: a winner is the name of the competitor whose value is strictly smaller
\* than the other's, and listing the competitors (with their snapshots) in the
\* other order gives the same winners.
C2_LowerWins ==
  Done =>
    /\ \A i \in Won :
         \E w \in 1..2 :
           /\ Comparisons[i].winner = racerNames[w]
           /\ Less(Comparisons[i].values[w], Comparisons[i].values[3 - w])
    /\ LET swapped == buildProfileComparison(Reverse(racerNames),
                                             Reverse(profileData)).comparisons
       IN /\ Len(swapped) = Len(Comparisons)
          /\ \A i \in CompIdx : /\ swapped[i].key = Comparisons[i].key
                                /\ swapped[i].winner = Comparisons[i].winner

\* the competitor listed second won with the smaller value
C2_Witness ==
  /\ Done
  /\ \E i \in CompIdx :
       /\ Comparisons[i].winner = racerNames[2]
       /\ Less(Comparisons[i].values[2], Comparisons[i].values[1])

\* C3: the win tallies sum to the number of comparisons with a winner.
C3_TalliesSumToWinners ==
  Done => SumOver(result.wins, DOMAIN result.wins) = Cardinality(Won)

\* two comparisons, one of them with a winner
C3_Witness ==
  /\ Done
  /\ Len(Comparisons) = 2
  /\ Cardinality(Won) = 1

\* C4: overallWinner is a competitor exactly when that competitor has strictly
\* more wins than every other one, "tie" exactly when two or more share the
\* maximum and there is a comparison, null exactly when there is none.
C4_OverallWinner ==
  Done =>
    LET w == result.wins
        top == {n \in DOMAIN w : \A o \in DOMAIN w : w[o] <= w[n]}
    IN /\ \A n \in DOMAIN w :
            (result.overallWinner = n)
              <=> (\A o \in DOMAIN w \ {n} : w[n] > w[o])
       /\ (result.overallWinner = "tie")
            <=> (Cardinality(top) >= 2 /\ Len(Comparisons) > 0)
       /\ (result.overallWinner = NullName) <=> (Len(Comparisons) = 0)

\* a tie declared over comparisons none of which has a winner
C4_Witness ==
  /\ Done
  /\ Len(Comparisons) > 0
  /\ Won = {}
  /\ result.overallWinner = "tie"

\* the values of comparison i: the winner's and the loser's
WinVal(i) ==
  IF Comparisons[i].winner = racerNames[1]
  THEN Comparisons[i].values[1] ELSE Comparisons[i].values[2]

LoseVal(i) ==
  IF Comparisons[i].winner = racerNames[1]
  THEN Comparisons[i].values[2] ELSE Comparisons[i].values[1]

\* diffPercent of comparison i is diff / winning value * 100
IsRatioOfDiff(i) ==
  LET p == Comparisons[i].diffPercent
      f == Comparisons[i].diff
      w == WinVal(i)
  IN /\ IsNum(p)
     /\ p.n * w.n * f.d = f.n * 100 * p.d * w.d

DiffIsLoseMinusWin(i) ==
  LET f == Comparisons[i].diff
      w == WinVal(i)
      l == LoseVal(i)
  IN /\ IsNum(f)
     /\ f.n * w.d * l.d = (l.n * w.d - w.n * l.d) * f.d

C7_StrictMinimumWins ==
  (Done /\ Aligned /\ Len(racerNames) > 2) =>
    /\ \A i \in CompIdx :
         LET v == Comparisons[i].values
             present == {r \in 1..Len(v) : IsNum(v[r])}
             mins == {r \in present : \A o \in present : ~Less(v[o], v[r])}
         IN IF Cardinality(present) >= 2 /\ Cardinality(mins) = 1
            THEN \A r \in mins : Comparisons[i].winner = racerNames[r]
            ELSE Comparisons[i].winner = NullName
    /\ \A n \in DOMAIN result.wins :
         result.wins[n] = Cardinality({i \in Won : Comparisons[i].winner = n})

\* C8: the comparisons carry registry keys only, each at most once, at most
\* as many as the registry has, in registry order.
C8_RegistryOrder ==
  Done =>
    /\ Len(Comparisons) <= Len(PROFILE_METRICS)
    /\ \A i \in CompIdx : Comparisons[i].key \in MetricKeys
    /\ \A i, j \in CompIdx :
         i < j => RegistryIndex(Comparisons[i].key) < RegistryIndex(Comparisons[j].key)

\* two metrics were compared
C8_Witness ==
  /\ Done
  /\ Len(Comparisons) = 2

\* C9: byCategory partitions the comparisons: the groups are those of the
\* categories that occur, none is empty, and each is the list of the
\* comparisons of its category (that of the metric in the registry) in the
\* order of the comparisons list.
C9_ByCategoryPartition ==
  Done =>
    LET g == result.byCategory
    IN /\ DOMAIN g = {Comparisons[i].category : i \in CompIdx}
       /\ \A i \in CompIdx :
            Comparisons[i].category
              = PROFILE_METRICS[RegistryIndex(Comparisons[i].key)].category
       /\ \A cat \in DOMAIN g :
            /\ g[cat] # <<>>
            /\ g[cat] = SelectSeq(Comparisons, LAMBDA c : c.category = cat)

\* a group of two comparisons
C9_Witness ==
  /\ Done
  /\ \E cat \in DOMAIN result.byCategory : Len(result.byCategory[cat]) = 2

\* C10: for snapshot entries that are null, missing or without metrics, no
\* comparison names as winner a competitor that has no value for the metric.
C10_WinnerHasValue ==
  Done =>
    \A i \in Won :
      \E r \in 1..Len(racerNames) :
        /\ Comparisons[i].winner = racerNames[r]
        /\ Present(r, Comparisons[i].key)


----------------------------------------------------------------------------
(* Properties of waitForStability *)

Returned == poller.pc = "returned"

ReturnedStable == Returned /\ poller.result.stable

\* a step in which a sample of the loop arrives
SampleStep == poller.pc = "sampling" /\ poller'.pc \in {"sleeping", "returned"}

\* C11: when a sample of the loop equals the reference sample and the
\* counters have then been stable for stabilityWindow, the invocation returns
\* stable: true with the elapsed time of that sample, also when the timeout
\* has expired at that sample.
C11_StabilityBeforeTimeout ==
  [][(/\ SampleStep
      /\ supplier'.last = poller.prev
      /\ now' - poller.stableSince >= options.stabilityWindow)
     => (/\ poller'.pc = "returned"
         /\ poller'.result = [stable |-> TRUE, elapsed |-> now' - poller.start])]_vars

\* stable: true returned by a sample at which the timeout had expired too
C11_Witness ==
  /\ ReturnedStable
  /\ poller.result.elapsed >= options.timeout
  /\ supplier.last # NoCounters

\* C12: stable: true is returned only when every sample since
\* supplier.sameSince equalled its predecessor, that time lies in the
\* invocation and at least stabilityWindow before the last sample; so the
\* elapsed time is at least stabilityWindow.
C12_StableOnlyAfterWindow ==
  ReturnedStable =>
    /\ supplier.sameSince >= poller.start
    /\ now - supplier.sameSince >= options.stabilityWindow
    /\ poller.result.elapsed >= options.stabilityWindow
    /\ poller.result.elapsed = now - poller.start

\* stable: true after the counters changed in the loop, with a window > 0
C12_Witness ==
  /\ ReturnedStable
  /\ options.stabilityWindow >= 1
  /\ supplier.sameSince > poller.start + MaxLatency

\* C13 as stated: the elapsed time of a result never exceeds
\* timeout + pollInterval.
C13_AsStated ==
  Returned => poller.result.elapsed <= options.timeout + options.pollInterval

\* C13: an invocation whose supplier never fails returns, and the elapsed
\* time of its result never exceeds timeout + pollInterval + the duration of
\* the last supplier call.
C13_ReturnsWithinBound ==
  /\ <>(Returned \/ supplier.failed)
  /\ [](Returned => poller.result.elapsed <=
          options.timeout + options.pollInterval + supplier.latency)

\* a result whose elapsed time exceeds timeout + pollInterval, the last call
\* having taken time
C13_Witness ==
  /\ Returned
  /\ supplier.latency >= 1
  /\ poller.result.elapsed > options.timeout + options.pollInterval

\* C14: when no sample equalled its predecessor, the result is
\* stable: false and its elapsed time is at least timeout.
C14_AlwaysChangingTimesOut ==
  (Returned /\ ~supplier.everSame) =>
    /\ ~poller.result.stable
    /\ poller.result.elapsed >= options.timeout

\* a result after samples of the loop that all differed, with a window of 0
C14_Witness ==
  /\ Returned
  /\ ~supplier.everSame
  /\ options.stabilityWindow = 0
  /\ supplier.sameSince > poller.start + MaxLatency

\* C15: once a supplier call has failed, the invocation has ended without
\* a StabilityResult, and nothing happens any more: no sample, no retry.
C15_FailurePropagates ==
  /\ [](supplier.failed => (poller.pc = "failed" /\ poller.result = NoStability))
  /\ [][supplier.failed => UNCHANGED <<poller, supplier, now>>]_vars

\* a supplier call failed in the loop, after samples were taken
C15_Witness ==
  /\ supplier.failed
  /\ supplier.last # NoCounters
  /\ poller.pc = "failed"


----------------------------------------------------------------------------
(* Properties of the clip alignment *)

\* a range with finite start, finite end and end >= start
ValidRange(ct) ==
  /\ ct.t = "object"
  /\ ct.start.t = "number"
  /\ ct.end.t = "number"
  /\ ct.start.n * ct.end.d <= ct.end.n * ct.start.d

ValidStreams == {i \in 1..Len(clipTimes) : ValidRange(clipTimes[i])}

\* x <= y on finite numbers
NumLeq(x, y) == x.n * y.d <= y.n * x.d

\* the smaller of two finite numbers
NumMin(x, y) == IF NumLeq(x, y) THEN x ELSE y

Duration(ct) == Minus(ct.end, ct.start)

\* C16: after a seek to an elapsed time, every stream with a valid range
\* has a position, and position - clip.start = min(elapsed, clip.end -
\* clip.start).
C16_ClampedElapsed ==
  player.pc = "sought" =>
    \A i \in ValidStreams :
      /\ player.positions[i].t = "number"
      /\ streamElapsed(player.positions[i], clipTimes[i]) =
           NumMin(player.elapsed, Duration(clipTimes[i]))

\* a seek past the end of a shorter stream while a longer one still advances
C16_Witness ==
  /\ player.pc = "sought"
  /\ ValidStreams = {1, 2}
  /\ player.positions[1] = clipTimes[1].end
  /\ player.positions[1] # clipTimes[1].start
  /\ player.positions[2] # clipTimes[2].end
  /\ player.positions[2] # clipTimes[2].start

\* the clips with a valid range, in order
ValidClips == SelectSeq(clipTimes, ValidRange)

C19_OffsetsAreSums ==
  /\ [](debugOffsets = calibrated.frames)
  /\ [][/\ clipTimes' = clipTimes
        /\ calibrated'.op = "adjust" =>
             \A j \in 1..Len(clipTimes) :
               calibrated'.frames[j] = calibrated.frames[j] =>
                 debugOffsets'[j] = debugOffsets[j]]_vars

\* both streams adjusted, by different sums
C19_Witness ==
  /\ calibrated.op = "adjust"
  /\ debugOffsets[1] # 0
  /\ debugOffsets[2] # 0
  /\ debugOffsets[1] # debugOffsets[2]

\* C20: after a reset every offset is 0, whatever the offsets were, and
\* the clips with the offsets applied are the raw clips, from which the active
\* clip is resolved.
C20_ResetClearsAll ==
  calibrated.op = "reset" =>
    /\ \A i \in 1..Len(clipTimes) : debugOffsets[i] = 0
    /\ getAdjustedClipTimes(clipTimes, debugOffsets) = clipTimes
    /\ player.activeClip = resolveClip(clipTimes)

\* a reset after both streams had been adjusted
C20_Witness ==
  /\ calibrated.op = "reset"
  /\ calibrated.before[1] # 0
  /\ calibrated.before[2] # 0
  /\ clipTimes[1] # NullClip


\* the clips with the offsets applied
AdjustedClips == getAdjustedClipTimes(clipTimes, debugOffsets)

\* C21: with any offsets applied, a valid clip has both bounds moved by
\* offset / 25 s and is valid again, an entry without a clip stays as it is, and
\* the active clip resolved from the adjusted clips is defined exactly when a
\* raw clip is valid.
C21_AdjustedClipsValid ==
  /\ \A i \in 1..Len(clipTimes) :
       IF ValidRange(clipTimes[i])
       THEN /\ ValidRange(AdjustedClips[i])
            /\ AdjustedClips[i].start =
                 Plus(clipTimes[i].start, Ratio(debugOffsets[i], 25))
            /\ AdjustedClips[i].end =
                 Plus(clipTimes[i].end, Ratio(debugOffsets[i], 25))
       ELSE AdjustedClips[i] = clipTimes[i]
  /\ calibrated.op # "none" =>
       (player.activeClip = UndefinedClip <=> ValidStreams = {})

\* two valid clips, one moved back and one moved forward
C21_Witness ==
  /\ calibrated.op = "adjust"
  /\ ValidStreams = {1, 2}
  /\ debugOffsets[1] < 0
  /\ debugOffsets[2] > 0
  /\ player.activeClip.t = "object"


----------------------------------------------------------------------------
(* Properties of buildProfileComparison on scoped snapshots *)

\* the value racer i has for a metric in a scope
ScopedValue(i, scope, key) ==
  IF Path(scope, key) \in DOMAIN profileData[i]
  THEN profileData[i][Path(scope, key)] ELSE Null

\* the metrics of a scope for which some racer has a value
ScopeMetrics(scope) ==
  {k \in ScopedKeys : \E i \in 1..2 : ScopedValue(i, scope, k) # Null}

\* C22: the result of a call on scoped snapshots has a measured and a
\* total part, each with one comparison for every metric some racer has a value
\* for in that scope, its byCategory and its overallWinner, and the combined
\* comparisons are as many as those of the two parts together.
C22_ScopedResult ==
  Done =>
    /\ Scopes \subseteq DOMAIN result
    /\ \A s \in Scopes :
         /\ {"comparisons", "byCategory", "overallWinner"} \subseteq DOMAIN result[s]
         /\ Len(result[s].comparisons) = Cardinality(ScopeMetrics(s))
    /\ Len(result.comparisons) =
         Len(result.measured.comparisons) + Len(result.total.comparisons)


----------------------------------------------------------------------------
(* Properties of review-pr.js *)

\* C23 as stated: a run whose command line has --dry-run issues no POST.
C23_AsStated ==
  (\E i \in 1..Len(argv) : argv[i] = "--dry-run") => review.posts = 0

\* the tokens that take the next token as their value
ValueOptions == {"--model", "--event", "--system"}

\* the positions of argv that are read as options: the third, and each one
\* after an option, two after one that takes a value
RECURSIVE OptionPositions(_)
OptionPositions(i) ==
  IF i > Len(argv) THEN {}
  ELSE {i} \cup OptionPositions(IF argv[i] \in ValueOptions THEN i + 2 ELSE i + 1)

\* C23: a run with --dry-run read as an option issues no POST; no run
\* issues more than one POST; a POST is issued only after the PR data has been
\* fetched and the model's response parsed.
C23_DryRunNeverPosts ==
  /\ (\E i \in OptionPositions(3) : argv[i] = "--dry-run") => review.posts = 0
  /\ review.posts <= 1
  /\ review.posts = 1 => (review.fetched /\ review.parsed)

\* a dry run that has fetched, parsed and returned without a POST
C23_Witness ==
  /\ review.pc = "done"
  /\ review.opts.dryRun
  /\ review.parsed
  /\ review.posts = 0


----------------------------------------------------------------------------
(* More properties of waitForStability *)

\* the counters in which the sample of this step differs from the one before
DiffersIn == {f \in CounterNames : supplier'.last[f] # supplier.last[f]}

\* C24: a sample of the loop that differs from the sample before it in
\* exactly one counter sets stableSince to its time and becomes the reference
\* sample; one that differs in none leaves stableSince and the reference sample
\* as they were.
C24_SingleCounterResets ==
  [][SampleStep =>
       /\ Cardinality(DiffersIn) = 1 =>
            (poller'.stableSince = now' /\ poller'.prev = supplier'.last)
       /\ DiffersIn = {} =>
            (poller'.stableSince = poller.stableSince /\ poller'.prev = poller.prev)]_vars

\* a sample of the loop has just differed in one counter and the wait goes on
C24_Witness ==
  /\ poller.pc = "sleeping"
  /\ supplier.single
  /\ poller.stableSince = now
  /\ poller.prev = supplier.last

\* every call of the supplier so far gave the same counters and took no time
ConstantSupplier ==
  /\ supplier.last # NoCounters
  /\ supplier.instant
  /\ supplier.sameSince = poller.start

\* C25 as stated: with a supplier that always gives the same counters in no
\* time and stabilityWindow <= timeout, the result is stable: true with
\* stabilityWindow <= elapsed < stabilityWindow + pollInterval.
C25_AsStated ==
  (Returned /\ ConstantSupplier /\ options.stabilityWindow <= options.timeout) =>
    /\ poller.result.stable
    /\ poller.result.elapsed >= options.stabilityWindow
    /\ poller.result.elapsed < options.stabilityWindow + options.pollInterval

\* C25: with a supplier that always gives the same counters in no time and
\* stabilityWindow <= timeout, the invocation returns at a sample of the loop,
\* a whole number of pollIntervals after the start: with stabilityWindow > 0
\* the result is stable: true with
\* stabilityWindow <= elapsed < stabilityWindow + pollInterval; with
\* stabilityWindow = 0 and timeout > 0 it is stable: true with
\* elapsed = pollInterval; with stabilityWindow = 0 and timeout = 0 it is
\* stable: false with elapsed 0.
C25_ConstantSupplier ==
  (Returned /\ ConstantSupplier /\ options.stabilityWindow <= options.timeout) =>
    /\ poller.result.elapsed % options.pollInterval = 0
    /\ options.stabilityWindow > 0 =>
         /\ poller.result.stable
         /\ poller.result.elapsed >= options.stabilityWindow
         /\ poller.result.elapsed < options.stabilityWindow + options.pollInterval
    /\ (options.stabilityWindow = 0 /\ options.timeout > 0) =>
         /\ poller.result.stable
         /\ poller.result.elapsed = options.pollInterval
    /\ options.timeout = 0 =>
         /\ ~poller.result.stable
         /\ poller.result.elapsed = 0

\* a stable result of a constant supplier after more than one sleep
C25_Witness ==
  /\ ReturnedStable
  /\ ConstantSupplier
  /\ options.stabilityWindow >= 1
  /\ options.stabilityWindow <= options.timeout
  /\ poller.result.elapsed > options.pollInterval

----------------------------------------------------------------------------
(* Properties of waitForStability next to its older copy *)

\* both copies have returned
PairReturned == pair.newer.pc = "returned" /\ pair.older.pc = "returned"

\* the copies returned different stable flags
FlagsDiffer == pair.newer.result.stable # pair.older.result.stable

\* C26 as stated: the copies return different stable flags on the runs in
\* which a sample met the window and the timeout together, and the same flag
\* on all other runs with stabilityWindow > 0.
C26_AsStated ==
  PairReturned =>
    /\ pair.both => FlagsDiffer
    /\ (~pair.both /\ pair.opts.stabilityWindow > 0) => ~FlagsDiffer

\* C26: with stabilityWindow > 0 the copies return different stable flags
\* exactly on the runs in which a sample met the window and the timeout
\* together: there visual-stability.cjs returns stable: true and the older
\* copy stable: false, both at that sample.
C26_VariantsDiffer ==
  (PairReturned /\ pair.opts.stabilityWindow > 0) =>
    /\ FlagsDiffer <=> pair.both
    /\ FlagsDiffer => (pair.newer.result.stable /\ ~pair.older.result.stable)
    /\ pair.newer.result.elapsed = pair.older.result.elapsed

\* the copies returned different flags after more than one sample of the loop
C26_Witness ==
  /\ PairReturned
  /\ pair.opts.stabilityWindow > 0
  /\ FlagsDiffer
  /\ pair.both
  /\ pair.newer.result.elapsed > pair.opts.pollInterval + MaxLatency

----------------------------------------------------------------------------
(* Properties of two concurrent invocations *)

RECURSIVE SoloLoop(_, _, _, _, _)
\* the rest of an invocation that runs alone: w at time t after callCount
\* calls of its supplier
SoloLoop(w, callCount, t, o, settleAfter) ==
  IF w.pc = "returned" THEN w.result
  ELSE SoloLoop(OnSample(w, CountersAt(settleAfter, callCount + 1),
                         t + SleepTime(o), o),
                callCount + 1, t + SleepTime(o), o, settleAfter)

\* the result of an invocation that runs alone from time 0
RunAlone(o, settleAfter) ==
  SoloLoop(LoopTop([IdlePoller EXCEPT !.pc = "first",
                                      !.prev = CountersAt(settleAfter, 1)],
                   0, o),
           1, 0, o, settleAfter)

\* C27: an invocation has at most one supplier call in flight, and none while
\* it sleeps; and each of two concurrent invocations with suppliers of their
\* own returns the result it returns when it runs alone.
C27_IndependentInvocations ==
  \A i \in 1..2 :
    /\ duo.inv[i].inFlight \in {0, 1}
    /\ duo.inv[i].w.pc = "sleeping" => duo.inv[i].inFlight = 0
    /\ duo.inv[i].w.pc = "returned" =>
         duo.inv[i].w.result = RunAlone(duo.opts, duo.inv[i].settleAfter)

\* both invocations have returned, with different results, the second having
\* started while the first slept
C27_Witness ==
  /\ duo.inv[1].w.pc = "returned"
  /\ duo.inv[2].w.pc = "returned"
  /\ duo.inv[1].w.result # duo.inv[2].w.result
  /\ duo.inv[2].w.start > duo.inv[1].w.start
  /\ duo.inv[2].w.start < duo.inv[1].w.start + duo.inv[1].w.result.elapsed

----------------------------------------------------------------------------
(* Properties of the elapsed time of a stream *)

\* the elapsed time the old seekAll gives stream i at elapsed e
oldElapsed(i, e) ==
  streamElapsed(oldPosition(clipTimes[i], player.activeClip.start, e),
                clipTimes[i])

\* the elapsed times within the duration of stream i
OwnElapsed(i) ==
  {e \in {Number(k) : k \in 0..MaxElapsed} : NumLeq(e, Duration(clipTimes[i]))}

\* C28 as stated: within a stream's own duration streamElapsed gives back the
\* elapsed time of the seek, and for every stream whose start differs from
\* the aligned start the old seekAll gives a different elapsed time at some
\* elapsed time within the stream's duration.
C28_AsStated ==
  player.pc = "sought" =>
    \A i \in ValidStreams :
      /\ player.elapsed \in OwnElapsed(i) =>
           streamElapsed(player.positions[i], clipTimes[i]) = player.elapsed
      /\ clipTimes[i].start # player.activeClip.start =>
           \E e \in OwnElapsed(i) : oldElapsed(i, e) # e

\* C28: within a stream's own duration streamElapsed gives back the elapsed
\* time of the seek; the old seekAll gives it back for the streams that start
\* at the aligned start and at elapsed 0, and a smaller elapsed time for
\* every stream whose start differs from the aligned start at every elapsed
\* time > 0 within the stream's duration.
C28_ElapsedRoundTrip ==
  player.pc = "sought" =>
    \A i \in ValidStreams :
      player.elapsed \in OwnElapsed(i) =>
        /\ streamElapsed(player.positions[i], clipTimes[i]) = player.elapsed
        /\ (clipTimes[i].start = player.activeClip.start \/ player.elapsed = Number(0)) =>
             oldElapsed(i, player.elapsed) = player.elapsed
        /\ (clipTimes[i].start # player.activeClip.start /\ player.elapsed # Number(0)) =>
             /\ oldElapsed(i, player.elapsed) # player.elapsed
             /\ NumLeq(oldElapsed(i, player.elapsed), player.elapsed)

\* a seek within the duration of a stream that starts after the aligned
\* start: the old seekAll leaves the stream behind
C28_Witness ==
  /\ player.pc = "sought"
  /\ \E i \in ValidStreams :
       /\ clipTimes[i].start # player.activeClip.start
       /\ player.elapsed \in OwnElapsed(i)
       /\ player.elapsed # Number(0)
       /\ streamElapsed(player.positions[i], clipTimes[i]) = player.elapsed
       /\ oldElapsed(i, player.elapsed) # player.elapsed

----------------------------------------------------------------------------
(* The initial sample of waitForStability *)

\* C30: a stable: true result is returned only after a sample equal to its
\* predecessor was taken, at least one pollInterval after the start, also
\* when stabilityWindow is 0.
C30_NotOnInitialSample ==
  ReturnedStable =>
    /\ supplier.everSame
    /\ poller.curr = poller.prev
    /\ poller.result.elapsed >= options.pollInterval

\* stable: true with a stabilityWindow of 0, at the first sample of the loop
C30_Witness ==
  /\ ReturnedStable
  /\ options.stabilityWindow = 0
  /\ supplier.everSame
  /\ poller.result.elapsed = options.pollInterval

----------------------------------------------------------------------------
(* More properties of buildProfileComparison *)

\* C29: in every comparison, diff and diffPercent are non-null exactly when
\* winner is non-null, and diff is then a number greater than zero.
C29_DiffIffWinner ==
  Done =>
    \A i \in CompIdx :
      /\ Comparisons[i].diff # Null <=> i \in Won
      /\ Comparisons[i].diffPercent # Null <=> i \in Won
      /\ i \in Won =>
           /\ IsNum(Comparisons[i].diff)
           /\ Comparisons[i].diff.n > 0

====
